---- MODULE Spec2Model ----
(***************************************************************************)
(* fast-validation: the path resolver (paths.py), the rule validation      *)
(* engine (schema.py) and the schema derivation (from_schema.py).          *)
(***************************************************************************)
EXTENDS Integers, Sequences, FiniteSets, TLC

VARIABLES
    \* ---- path resolver (paths.py) ----
    r_pc,        \* "idle" | "loop" | "done" | "raised"
    r_data,      \* the data argument
    r_path,      \* the path_expr argument, a sequence of characters
    r_tokens,    \* tokens still to process
    r_results,   \* the frontier: a sequence of [loc, val]
    \* ---- schema derivation (from_schema.py) ----
    d_pc,        \* "idle" | "loops" | "done"
    d_base,      \* base_schema
    d_target,    \* target_cls
    d_partial,   \* make_partial
    d_todo,      \* iterations of the two field loops still to run: [loop, name]
    d_ns,        \* namespace
    d_ann,       \* combined_annotations
    d_derived,   \* the derived type, once built
    \* ---- rule validation engine (schema.py) ----
    v_fields,    \* instance -> field name -> value
    v_set,       \* instance -> model_fields_set
    v_validated, \* instance -> _validated
    v_stack,     \* the validate() calls in progress, innermost last
    v_calls,     \* the validator invocations of the running or last top-level call
    v_result,    \* how the last top-level call ended
    v_last       \* instance -> how its last completed validate() ended

r_vars == <<r_pc, r_data, r_path, r_tokens, r_results>>

d_vars == <<d_pc, d_base, d_target, d_partial, d_todo, d_ns, d_ann, d_derived>>

v_vars == <<v_fields, v_set, v_validated, v_stack, v_calls, v_result, v_last>>

vars == <<r_pc, r_data, r_path, r_tokens, r_results,
          d_pc, d_base, d_target, d_partial, d_todo, d_ns, d_ann, d_derived,
          v_fields, v_set, v_validated, v_stack, v_calls, v_result, v_last>>

----------------------------------------------------------------------------
(* Bounds of the model. *)

\* longest list the generated documents and record fields hold
MaxItems == 2

----------------------------------------------------------------------------
(* Python values: None, int, dict (insertion-ordered), list, tuple. *)

PyNone == [k |-> "null"]
PyInt(n) == [k |-> "int", v |-> n]
PyDict(ks, vs) == [k |-> "dict", keys |-> ks, vals |-> vs]
PyList(xs) == [k |-> "list", items |-> xs]
PyTuple(xs) == [k |-> "tuple", items |-> xs]

IsDict(v) == v.k = "dict"
IsList(v) == v.k = "list"
HasKey(d, key) == \E i \in 1..Len(d.keys) : d.keys[i] = key
Get(d, key) == d.vals[CHOOSE i \in 1..Len(d.keys) : d.keys[i] = key]

\* str(idx) with the index counted from 1
StrIdxFromOne(i) == ToString(i)

\* str(idx) of a 0-based enumerate() index; i is the 1-based position
StrIdx(i) == ToString(i - 1)

RECURSIVE Concat(_)
Concat(ss) == IF ss = <<>> THEN <<>> ELSE Head(ss) \o Concat(Tail(ss))

----------------------------------------------------------------------------
(* Strings as character sequences: startswith, split, endswith, slicing. *)

RECURSIVE Join(_)
Join(cs) == IF cs = <<>> THEN "" ELSE Head(cs) \o Join(Tail(cs))

StartsWithRoot(path) == Len(path) >= 1 /\ path[1] = "$"

\* path_expr.split("."): the parts between the dots, empty parts kept
RECURSIVE SplitDots(_, _)
SplitDots(cs, cur) ==
    IF cs = <<>> THEN <<cur>>
    ELSE IF Head(cs) = "." THEN <<cur>> \o SplitDots(Tail(cs), <<>>)
    ELSE SplitDots(Tail(cs), Append(cur, Head(cs)))

IsRootToken(part) == part = <<"$">>

\* [part for part in path_expr.split(".") if part != "$"]
Tokenize(path) == SelectSeq(SplitDots(path, <<>>), LAMBDA part : ~IsRootToken(part))

EndsWithWildcard(token) ==
    /\ Len(token) >= 3
    /\ SubSeq(token, Len(token) - 2, Len(token)) = <<"[", "*", "]">>

\* token[:-3]
WildcardKey(token) == Join(SubSeq(token, 1, Len(token) - 3))

----------------------------------------------------------------------------
(* resolve_path_expressions: one iteration of the loop over the tokens.    *)

\* the inner loop of the wildcard branch for one frontier entry
ExpandEntry(e, key) ==
    IF ~IsDict(e.val) \/ ~HasKey(e.val, key) THEN <<>>
    ELSE LET value == Get(e.val, key) IN
         IF IsList(value)
         THEN [i \in 1..Len(value.items) |->
                 [loc |-> e.loc \o <<key, StrIdx(i)>>, val |-> value.items[i]]]
         ELSE <<>>

\* the plain branch reading a missing field as None (dict.get)
DescendEntryLenient(e, key) ==
    IF IsDict(e.val)
    THEN <<[loc |-> e.loc \o <<key>>,
            val |-> IF HasKey(e.val, key) THEN Get(e.val, key) ELSE PyNone]>>
    ELSE <<>>

\* the loop of the plain branch for one frontier entry
DescendEntry(e, key) ==
    IF IsDict(e.val) /\ HasKey(e.val, key)
    THEN <<[loc |-> e.loc \o <<key>>, val |-> Get(e.val, key)]>>
    ELSE <<>>

ResolveToken(results, token) ==
    IF EndsWithWildcard(token)
    THEN Concat([i \in 1..Len(results) |-> ExpandEntry(results[i], WildcardKey(token))])
    ELSE Concat([i \in 1..Len(results) |-> DescendEntry(results[i], Join(token))])

RECURSIVE ResolveTokens(_, _)
ResolveTokens(results, tokens) ==
    IF tokens = <<>> THEN results
    ELSE ResolveTokens(ResolveToken(results, Head(tokens)), Tail(tokens))

\* the whole function, for a path that starts with "$"
resolve_path_expressions(data, path) ==
    ResolveTokens(<<[loc |-> <<>>, val |-> data]>>, Tokenize(path))

----------------------------------------------------------------------------
(* The resolver as a state machine, over a set of documents and paths.     *)

XItem(n) == PyDict(<<"x">>, <<PyInt(n)>>)
ItemsDoc(n) == PyDict(<<"items">>, <<PyList([i \in 1..n |-> XItem(i)])>>)

Docs ==
    {ItemsDoc(n) : n \in 0..MaxItems} \cup
    { PyDict(<<"items">>, <<PyList(<<XItem(1), PyInt(5), PyDict(<<"y">>, <<PyInt(2)>>),
                                     PyDict(<<"x">>, <<PyNone>>)>>)>>),
      PyDict(<<"items">>, <<XItem(1)>>),
      PyDict(<<"items">>, <<PyTuple(<<XItem(1)>>)>>),
      PyDict(<<"a", "items">>, <<ItemsDoc(1), PyInt(7)>>),
      PyDict(<<"items", "a">>, <<PyList(<<PyList(<<XItem(1)>>), ItemsDoc(2), ItemsDoc(1)>>),
                                 PyDict(<<"b">>, <<PyNone>>)>>),
      PyDict(<<>>, <<>>),
      PyInt(5),
      PyNone,
      PyList(<<XItem(1)>>) }

Paths ==
    { <<"$", ".", "i", "t", "e", "m", "s", "[", "*", "]", ".", "x">>,
      <<"$", ".", "i", "t", "e", "m", "s", "[", "*", "]">>,
      <<"$", ".", "i", "t", "e", "m", "s">>,
      <<"$", ".", "i", "t", "e", "m", "s", ".", "x">>,
      <<"$", ".", "a", ".", "i", "t", "e", "m", "s", "[", "*", "]", ".", "x">>,
      <<"$", ".", "a", ".", "b", ".", "c">>,
      <<"$", ".", "i", "t", "e", "m", "s", "[", "*", "]", ".",
        "i", "t", "e", "m", "s", "[", "*", "]", ".", "x">>,
      <<"$", ".", "x", "[", "*", "]">>,
      <<"$", ".", "a", "[", "*", "]", ".", "b">>,
      <<"$">>,
      <<"$", ".", ".", "i", "t", "e", "m", "s">>,
      <<"$", ".", "$", ".", "i", "t", "e", "m", "s", "[", "*", "]">>,
      <<"$", "i", "t", "e", "m", "s">>,
      <<"i", "t", "e", "m", "s", "[", "*", "]", ".", "x">>,
      <<>> }

IdleResolve ==
    /\ r_pc = "idle"
    /\ r_data = PyNone
    /\ r_path = <<>>
    /\ r_tokens = <<>>
    /\ r_results = <<>>

IdleDerive ==
    /\ d_pc = "idle"
    /\ d_base = PyNone
    /\ d_target = PyNone
    /\ d_partial = FALSE
    /\ d_todo = <<>>
    /\ d_ns = PyNone
    /\ d_ann = PyNone
    /\ d_derived = PyNone

\* the call, up to the loop: the startswith check, the tokens, the seed
ResolveCall(data, path) ==
    /\ r_pc \in {"idle", "done", "raised"}
    /\ r_data' = data
    /\ r_path' = path
    /\ IF StartsWithRoot(path)
       THEN /\ r_pc' = "loop"
            /\ r_tokens' = Tokenize(path)
            /\ r_results' = <<[loc |-> <<>>, val |-> data]>>
       ELSE /\ r_pc' = "raised"
            /\ r_tokens' = <<>>
            /\ r_results' = <<>>
    /\ UNCHANGED <<d_vars, v_vars>>

\* one iteration of "for token in tokens"
ResolveStep ==
    /\ r_pc = "loop"
    /\ r_tokens # <<>>
    /\ r_results' = ResolveToken(r_results, Head(r_tokens))
    /\ r_tokens' = Tail(r_tokens)
    /\ UNCHANGED <<r_pc, r_data, r_path>>
    /\ UNCHANGED <<d_vars, v_vars>>

\* "return results"
ResolveReturn ==
    /\ r_pc = "loop"
    /\ r_tokens = <<>>
    /\ r_pc' = "done"
    /\ UNCHANGED <<r_data, r_path, r_tokens, r_results>>
    /\ UNCHANGED <<d_vars, v_vars>>

NextResolve ==
    \/ \E data \in Docs, path \in Paths : ResolveCall(data, path)
    \/ ResolveStep
    \/ ResolveReturn

----------------------------------------------------------------------------
(* Properties of the resolver. *)

PathItemsX == <<"$", ".", "i", "t", "e", "m", "s", "[", "*", "]", ".", "x">>

MixedDoc ==
    PyDict(<<"items">>, <<PyList(<<XItem(1), PyInt(5), PyDict(<<"y">>, <<PyInt(2)>>),
                                   PyDict(<<"x">>, <<PyNone>>)>>)>>)

\* what the specification says of one frontier entry and one token
TokenField(token) ==
    IF EndsWithWildcard(token) THEN WildcardKey(token) ELSE Join(token)

Survives(e, token) ==
    /\ e.val.k = "dict"
    /\ \E i \in 1..Len(e.val.keys) : e.val.keys[i] = TokenField(token)
    /\ EndsWithWildcard(token) => Get(e.val, TokenField(token)).k = "list"

Contribution(e, token) ==
    IF ~Survives(e, token) THEN 0
    ELSE IF EndsWithWildcard(token) THEN Len(Get(e.val, TokenField(token)).items)
    ELSE 1

RECURSIVE ContributionsBefore(_, _, _)
ContributionsBefore(frontier, token, i) ==
    IF i <= 1 THEN 0
    ELSE ContributionsBefore(frontier, token, i - 1) + Contribution(frontier[i - 1], token)

\* the wildcard expansion of frontier into next, element by element
WildcardExpansion(frontier, token, next) ==
    /\ Len(next) = ContributionsBefore(frontier, token, Len(frontier) + 1)
    /\ \A i \in 1..Len(frontier) :
          Survives(frontier[i], token) =>
             LET list == Get(frontier[i].val, TokenField(token)).items
                 off == ContributionsBefore(frontier, token, i)
             IN \A j \in 1..Len(list) :
                   /\ next[off + j].val = list[j]
                   /\ next[off + j].loc =
                         frontier[i].loc \o <<TokenField(token), ToString(j - 1)>>

\* C5: a token field[*] expands every frontier entry that is a mapping holding
\* a list under field into one entry per element, in list order, the location
\* extended by the field name and the stringified 0-based index; the result of
\* $.items[*].x on {"items": [{"x": 1}, {"x": 2}]} is the two entries
\* (("items","0","x"), 1), (("items","1","x"), 2) in that order.
C5_WildcardResolution ==
    [][ /\ (r_pc = "loop" /\ r_tokens # <<>> /\ EndsWithWildcard(Head(r_tokens)))
            => WildcardExpansion(r_results, Head(r_tokens), r_results')
        /\ (r_pc' = "done" /\ r_data' = ItemsDoc(2) /\ r_path' = PathItemsX)
            => r_results' = << [loc |-> <<"items", "0", "x">>, val |-> PyInt(1)],
                               [loc |-> <<"items", "1", "x">>, val |-> PyInt(2)] >>
      ]_vars

C5_Witness ==
    /\ r_pc = "done"
    /\ r_data = ItemsDoc(2)
    /\ r_path = PathItemsX
    /\ Len(r_results) = 2

\* C6: resolve() fails only for a path that does not start with "$"; at every
\* token an entry that fails its containment/type check contributes nothing and
\* the surviving entries contribute as if it were absent, so the result is
\* empty when no entry survives.
C6_MissingPathSafety ==
    [][ /\ (r_pc' = "raised") => ~(Len(r_path') >= 1 /\ r_path'[1] = "$")
        /\ (r_pc = "loop" /\ r_tokens # <<>>) =>
             LET token == Head(r_tokens)
                 alive == SelectSeq(r_results, LAMBDA e : Survives(e, token))
             IN /\ Len(r_results') = ContributionsBefore(r_results, token, Len(r_results) + 1)
                /\ (alive = <<>>) => (r_results' = <<>>)
                /\ ~EndsWithWildcard(token) =>
                       r_results' = [i \in 1..Len(alive) |->
                                        [loc |-> alive[i].loc \o <<TokenField(token)>>,
                                         val |-> Get(alive[i].val, TokenField(token))]]
                /\ EndsWithWildcard(token) =>
                       WildcardExpansion(alive, token, r_results')
      ]_vars

C6_Witness ==
    /\ r_pc = "done"
    /\ r_data = MixedDoc
    /\ r_path = PathItemsX
    /\ r_results = << [loc |-> <<"items", "0", "x">>, val |-> PyInt(1)],
                      [loc |-> <<"items", "3", "x">>, val |-> PyNone] >>

----------------------------------------------------------------------------
(* from_schema.py: values of the derivation.                               *)

\* PydanticUndefined, and the module's _MISSING
Undefined == [k |-> "undefined"]
PyStr(s) == [k |-> "str", v |-> s]
PyFunction(n) == [k |-> "function", name |-> n]
EmptyDict == PyDict(<<>>, <<>>)

\* d[key] = v
Put(d, key, v) ==
    IF HasKey(d, key)
    THEN PyDict(d.keys, [i \in 1..Len(d.keys) |-> IF d.keys[i] = key THEN v ELSE d.vals[i]])
    ELSE PyDict(Append(d.keys, key), Append(d.vals, v))

\* d.get(key, default)
GetOr(d, key, default) == IF HasKey(d, key) THEN Get(d, key) ELSE default

\* type annotations: Any, a class, a parameterised alias
TAny == [k |-> "Any"]
TClass(n) == [k |-> "class", name |-> n]
NoneType == TClass("NoneType")
TAlias(o, as) == [k |-> "alias", origin |-> o, args |-> as]

get_origin(a) == IF a.k = "alias" THEN PyStr(a.origin) ELSE PyNone
get_args(a) == IF a.k = "alias" THEN a.args ELSE <<>>
InArgs(t, args) == \E i \in 1..Len(args) : args[i] = t

\* typing.Optional[a]: Union[a, None], a Union flattened, Optional[None] is None
Optional(a) ==
    IF a = NoneType THEN NoneType
    ELSE IF a.k = "alias" /\ a.origin = "Union"
         THEN IF InArgs(NoneType, a.args) THEN a ELSE TAlias("Union", Append(a.args, NoneType))
    ELSE TAlias("Union", <<a, NoneType>>)

\* pydantic's FieldInfo
FieldInfo(ann, default, factory, desc) ==
    [k |-> "FieldInfo", annotation |-> ann, default |-> default,
     default_factory |-> factory, description |-> desc]

is_required(fi) == fi.default = Undefined /\ fi.default_factory = PyNone

\* a metadata holder class: its own attributes and its base classes
Holder(id, own, bases) == [k |-> "meta", id |-> id, own |-> own, bases |-> bases]

RECURSIVE Mro(_)
Mro(h) == <<h>> \o Concat([i \in 1..Len(h.bases) |-> Mro(h.bases[i])])

\* getattr(holder, attr, Undefined)
Lookup(h, attr) ==
    LET mro == Mro(h)
        hits == SelectSeq(mro, LAMBDA c : HasKey(c.own, attr))
    IN IF hits = <<>> THEN Undefined ELSE Get(hits[1].own, attr)

\* Schema.Rule: a path expression and its validators
Rule(path, validators) == [k |-> "rule", path |-> path, validators |-> validators]

\* Schema.Meta
SchemaMeta == Holder("Schema.Meta", PyDict(<<"rules">>, <<PyList(<<>>)>>), <<>>)

----------------------------------------------------------------------------
(* from_schema.py: _optionalize, _copy_field_info, _compose_meta.          *)

_optionalize(annotation) ==
    IF annotation = TAny THEN Optional(TAny)
    ELSE IF get_origin(annotation) = PyNone THEN Optional(annotation)
    ELSE IF get_args(annotation) # <<>> /\ InArgs(NoneType, get_args(annotation))
         THEN annotation
    ELSE Optional(annotation)

_copy_field_info(field_info, force_optional) ==
    IF force_optional /\ is_required(field_info)
    THEN [field_info EXCEPT !.default = PyNone, !.default_factory = PyNone]
    ELSE field_info

\* the synthesized holder with the base's metadata first
ComposeMetaBaseFirst(target_meta, base_meta) ==
    IF target_meta # PyNone /\ base_meta # PyNone
       /\ ~(\E i \in 1..Len(Mro(target_meta)) : Mro(target_meta)[i] = base_meta)
    THEN Holder("Meta", EmptyDict, <<base_meta, target_meta>>)
    ELSE IF target_meta # PyNone THEN target_meta
    ELSE IF base_meta # PyNone THEN base_meta
    ELSE Holder("Meta", EmptyDict, <<>>)

_compose_meta(target_meta, base_meta) ==
    IF target_meta # PyNone /\ base_meta # PyNone
       /\ ~(\E i \in 1..Len(Mro(target_meta)) : Mro(target_meta)[i] = base_meta)
    THEN Holder("Meta", EmptyDict, <<target_meta, base_meta>>)
    ELSE IF target_meta # PyNone THEN target_meta
    ELSE IF base_meta # PyNone THEN base_meta
    ELSE Holder("Meta", EmptyDict, <<>>)

\* the keys the copy of target_cls.__dict__ skips
SkippedKeys == {"__dict__", "__weakref__", "__annotations__", "__module__", "__doc__", "Meta"}

\* namespace after the loop over target_cls.__dict__.items()
RECURSIVE CopyNamespace(_, _, _)
CopyNamespace(ns, keys, dict) ==
    IF keys = <<>> THEN ns
    ELSE CopyNamespace(IF Head(keys) \in SkippedKeys THEN ns
                       ELSE Put(ns, Head(keys), Get(dict, Head(keys))),
                       Tail(keys), dict)

\* the field the model metaclass builds for an annotated name: from the
\* FieldInfo assigned to it, from a plain default, or from the annotation alone
PydanticField(annotation, attr) ==
    IF attr = Undefined THEN FieldInfo(annotation, Undefined, PyNone, PyNone)
    ELSE IF attr.k = "FieldInfo" THEN [attr EXCEPT !.annotation = annotation]
    ELSE FieldInfo(annotation, attr, PyNone, PyNone)

\* type(target_cls.__name__, bases, namespace), then the three attributes
BuildDerived(base, target, partial, ns, ann, meta) ==
    [k |-> "schema",
     name |-> target.name,
     bases |-> <<base.name>> \o SelectSeq(target.bases, LAMBDA b : b \notin {"object", base.name}),
     model_fields |-> PyDict(ann.keys,
                             [i \in 1..Len(ann.keys) |->
                                 PydanticField(ann.vals[i], GetOr(ns, ann.keys[i], Undefined))]),
     attrs |-> ns,
     Meta |-> meta,
     from_schema_base |-> base.name,
     from_schema_partial |-> partial]

----------------------------------------------------------------------------
(* The derivation as a state machine, over base schemas and decorated      *)
(* classes.                                                                *)

Schema(name, fields, meta) ==
    [k |-> "schema", name |-> name, model_fields |-> fields, Meta |-> meta]

\* a class body: its annotations, its assigned attributes, its Meta if any
Class(name, anns, attrs, meta) ==
    [k |-> "class", name |-> name, bases |-> <<"object">>,
     annotations |-> anns,
     dict |-> PyDict(<<"__module__", "__doc__">> \o attrs.keys
                       \o (IF anns = EmptyDict THEN <<>> ELSE <<"__annotations__">>)
                       \o (IF meta = PyNone THEN <<>> ELSE <<"Meta">>)
                       \o <<"__dict__", "__weakref__">>,
                     <<PyStr("tests"), PyNone>> \o attrs.vals
                       \o (IF anns = EmptyDict THEN <<>> ELSE <<anns>>)
                       \o (IF meta = PyNone THEN <<>> ELSE <<meta>>)
                       \o <<PyFunction("__dict__"), PyFunction("__weakref__")>>)]

BaseProductMeta ==
    Holder("BaseProductSchema.Meta",
           PyDict(<<"rules", "tag">>, <<PyList(<<Rule(<<"$", ".", "n", "a", "m", "e">>, <<>>)>>), PyStr("base")>>), <<>>)

BaseProductSchema ==
    Schema("BaseProductSchema",
           PyDict(<<"name", "price", "quantity">>,
                  << FieldInfo(TClass("str"), Undefined, PyNone, PyStr("Product name.")),
                     FieldInfo(TClass("int"), Undefined, PyNone, PyStr("Price in cents.")),
                     FieldInfo(TClass("int"), PyInt(1), PyNone, PyStr("Available quantity.")) >>),
           BaseProductMeta)

\* a base whose mandatory fields carry the annotation shapes _optionalize tells apart
BaseTypedSchema ==
    Schema("BaseTypedSchema",
           PyDict(<<"payload", "maybe", "either", "labels", "flags", "made">>,
                  << FieldInfo(TAny, Undefined, PyNone, PyNone),
                     FieldInfo(TAlias("Union", <<TClass("int"), NoneType>>), Undefined, PyNone, PyNone),
                     FieldInfo(TAlias("Union", <<TClass("int"), TClass("str")>>), Undefined, PyNone, PyNone),
                     FieldInfo(TAlias("list", <<TClass("str")>>), Undefined, PyNone, PyNone),
                     FieldInfo(TAlias("dict", <<TClass("str"), NoneType>>), Undefined, PyNone, PyNone),
                     FieldInfo(TClass("int"), Undefined, PyFunction("factory"), PyNone) >>),
           SchemaMeta)

ProductTargets ==
    { Class("ProductStoreSchema", EmptyDict, EmptyDict, PyNone),
      Class("ProductUpdateWithOverride",
            PyDict(<<"price">>, <<TClass("int")>>),
            PyDict(<<"price">>, <<FieldInfo(PyNone, Undefined, PyNone, PyStr("Price override."))>>),
            PyNone),
      Class("ProductWithExtraField", PyDict(<<"sku">>, <<TClass("str")>>), EmptyDict, PyNone),
      Class("ProductCustomRules", EmptyDict, EmptyDict,
            Holder("ProductCustomRules.Meta",
                   PyDict(<<"rules">>, <<PyList(<<Rule(<<"$", ".", "p", "r", "i", "c", "e">>, <<>>)>>)>>), <<>>)),
      Class("ProductRetyped", PyDict(<<"price">>, <<TClass("float")>>), EmptyDict, PyNone),
      Class("ProductDefaultQuantity", EmptyDict, PyDict(<<"quantity">>, <<PyInt(5)>>), PyNone),
      Class("ProductNamed", EmptyDict,
            PyDict(<<"name", "label">>,
                   <<FieldInfo(PyNone, PyStr("n/a"), PyNone, PyStr("Default name.")),
                     PyFunction("label")>>),
            Holder("ProductNamed.Meta", PyDict(<<"tag">>, <<PyStr("named")>>), <<>>)),
      Class("ProductChildMeta", PyDict(<<"quantity">>, <<TClass("int")>>),
            PyDict(<<"quantity">>, <<PyInt(0)>>),
            Holder("ProductChildMeta.Meta",
                   PyDict(<<"rules">>, <<PyList(<<>>)>>), <<BaseProductMeta>>)) }

TypedTargets ==
    { Class("TypedUpdate", EmptyDict, EmptyDict, PyNone),
      Class("TypedWithRules", PyDict(<<"flags">>, <<TAlias("dict", <<TClass("str"), NoneType>>)>>),
            EmptyDict,
            Holder("TypedWithRules.Meta",
                   PyDict(<<"rules">>, <<PyList(<<Rule(<<"$", ".", "m", "a", "y", "b", "e">>, <<>>)>>)>>), <<>>)) }

Derivations ==
    {<<BaseProductSchema, t>> : t \in ProductTargets} \cup
    {<<BaseTypedSchema, t>> : t \in TypedTargets}

\* from_schema(base_schema, partial=...)(target_cls), up to the first field loop
DeriveCall(base_schema, target_cls, make_partial) ==
    /\ d_pc \in {"idle", "done"}
    /\ d_pc' = "loops"
    /\ d_base' = base_schema
    /\ d_target' = target_cls
    /\ d_partial' = make_partial
    /\ d_ns' = CopyNamespace(PyDict(<<"__module__", "__doc__">>,
                                    <<Get(target_cls.dict, "__module__"),
                                      Get(target_cls.dict, "__doc__")>>),
                             target_cls.dict.keys, target_cls.dict)
    /\ d_ann' = target_cls.annotations
    /\ d_todo' = [i \in 1..Len(base_schema.model_fields.keys) |->
                    [loop |-> "base", name |-> base_schema.model_fields.keys[i]]]
                 \o [i \in 1..Len(target_cls.annotations.keys) |->
                    [loop |-> "target", name |-> target_cls.annotations.keys[i]]]
    /\ d_derived' = PyNone
    /\ UNCHANGED <<r_vars, v_vars>>

\* one iteration of "for field_name, field_info in base_fields.items()"
DeriveBaseField ==
    /\ d_pc = "loops"
    /\ d_todo # <<>>
    /\ Head(d_todo).loop = "base"
    /\ LET field_name == Head(d_todo).name
           field_info == Get(d_base.model_fields, field_name)
           annotation == IF field_info.annotation = PyNone THEN TAny ELSE field_info.annotation
           should_optionalize == d_partial /\ is_required(field_info)
       IN IF HasKey(d_target.annotations, field_name)
          THEN UNCHANGED <<d_ns, d_ann>>
          ELSE /\ d_ann' = Put(d_ann, field_name,
                               IF should_optionalize THEN _optionalize(annotation)
                               ELSE annotation)
               /\ d_ns' = Put(d_ns, field_name, _copy_field_info(field_info, should_optionalize))
    /\ d_todo' = Tail(d_todo)
    /\ UNCHANGED <<d_pc, d_base, d_target, d_partial, d_derived>>
    /\ UNCHANGED <<r_vars, v_vars>>

\* one iteration of "for field_name, annotation in target_annotations.items()"
DeriveTargetField ==
    /\ d_pc = "loops"
    /\ d_todo # <<>>
    /\ Head(d_todo).loop = "target"
    /\ LET field_name == Head(d_todo).name
           attr_value == GetOr(d_target.dict, field_name, Undefined)
       IN /\ d_ann' = Put(d_ann, field_name, Get(d_target.annotations, field_name))
          /\ d_ns' = IF attr_value # Undefined THEN Put(d_ns, field_name, attr_value) ELSE d_ns
    /\ d_todo' = Tail(d_todo)
    /\ UNCHANGED <<d_pc, d_base, d_target, d_partial, d_derived>>
    /\ UNCHANGED <<r_vars, v_vars>>

\* the rest: __annotations__, _compose_meta, type(...), the three attributes
DeriveBuild ==
    /\ d_pc = "loops"
    /\ d_todo = <<>>
    /\ LET namespace == Put(d_ns, "__annotations__", d_ann)
           meta == _compose_meta(GetOr(d_target.dict, "Meta", PyNone), d_base.Meta)
       IN /\ d_ns' = namespace
          /\ d_derived' = BuildDerived(d_base, d_target, d_partial, namespace, d_ann, meta)
    /\ d_pc' = "done"
    /\ UNCHANGED <<d_base, d_target, d_partial, d_todo, d_ann>>
    /\ UNCHANGED <<r_vars, v_vars>>

NextDerive ==
    \/ \E io \in Derivations, make_partial \in BOOLEAN : DeriveCall(io[1], io[2], make_partial)
    \/ DeriveBaseField
    \/ DeriveTargetField
    \/ DeriveBuild

----------------------------------------------------------------------------
(* Properties of the derivation. *)

\* the names the overlay declares as fields: annotated, or assigned a default
\* or a field declaration
IsFieldValue(v) == v.k \in {"FieldInfo", "int", "str", "null"}

OverlayAssigned(target) ==
    {target.dict.keys[i] : i \in
        {j \in 1..Len(target.dict.keys) :
            /\ target.dict.keys[j] \notin SkippedKeys
            /\ IsFieldValue(target.dict.vals[j])}}

OverlayAnnotated(target) == {target.annotations.keys[i] : i \in 1..Len(target.annotations.keys)}

OverlayDeclared(target) == OverlayAnnotated(target) \cup OverlayAssigned(target)

BaseFieldNames(base) == {base.model_fields.keys[i] : i \in 1..Len(base.model_fields.keys)}

\* a value of the annotation may be None
RECURSIVE AcceptsNone(_)
AcceptsNone(a) ==
    \/ a = TAny
    \/ a = NoneType
    \/ /\ a.k = "alias"
       /\ a.origin = "Union"
       /\ \E i \in 1..Len(a.args) : AcceptsNone(a.args[i])

\* the overlay's own declaration of a field, as far as it states one
MatchesOverlay(field, target, name) ==
    /\ name \in OverlayAnnotated(target) => field.annotation = Get(target.annotations, name)
    /\ IF name \in OverlayAssigned(target)
       THEN LET v == Get(target.dict, name) IN
            IF v.k = "FieldInfo"
            THEN /\ field.default = v.default
                 /\ field.default_factory = v.default_factory
                 /\ field.description = v.description
            ELSE /\ field.default = v
                 /\ field.default_factory = PyNone
                 /\ field.description = PyNone
       ELSE /\ field.default = Undefined
            /\ field.default_factory = PyNone
            /\ field.description = PyNone

\* C7 (as claimed): every field the overlay declares, by annotation, by an
\* assigned default or field declaration, or by both, is in the derived type
\* the overlay's declaration with nothing of the base field left, and every
\* base field the overlay does not declare is present in the derived type.
C7_OverlayPrecedence ==
    d_pc = "done" =>
        /\ \A name \in OverlayDeclared(d_target) :
              /\ HasKey(d_derived.model_fields, name)
              /\ MatchesOverlay(Get(d_derived.model_fields, name), d_target, name)
        /\ \A name \in BaseFieldNames(d_base) \ OverlayDeclared(d_target) :
              HasKey(d_derived.model_fields, name)

\* C8 (as claimed): under partial=True a field the overlay re-declares keeps the
\* overlay's requiredness, an inherited field that was mandatory gets default
\* None and an annotation that accepts None (the base's own when that already
\* is a Union with None), an inherited field that was not mandatory is copied
\* unchanged; under partial=False every inherited field is the base's field.
C8_PartialDerivation ==
    d_pc = "done" =>
        /\ \A name \in OverlayAnnotated(d_target) :
              is_required(Get(d_derived.model_fields, name))
                 = (GetOr(d_target.dict, name, Undefined) = Undefined
                    \/ (Get(d_target.dict, name).k = "FieldInfo"
                        /\ is_required(Get(d_target.dict, name))))
        /\ \A name \in BaseFieldNames(d_base) \ OverlayAnnotated(d_target) :
              LET base_field == Get(d_base.model_fields, name)
                  field == Get(d_derived.model_fields, name)
              IN IF d_partial /\ is_required(base_field)
                 THEN /\ field.default = PyNone
                      /\ ~is_required(field)
                      /\ field.description = base_field.description
                      /\ AcceptsNone(field.annotation)
                      /\ (base_field.annotation.k = "alias"
                          /\ base_field.annotation.origin = "Union"
                          /\ InArgs(NoneType, base_field.annotation.args))
                            => field.annotation = base_field.annotation
                 ELSE field = base_field

\* C9: the derived type's metadata holder resolves an attribute the overlay's
\* holder declares to the overlay's value and any other attribute to the
\* base holder's value; without an overlay holder it is the base's holder itself.
MetaAttrs == {"rules", "tag", "other"}

C9_MetadataMerge ==
    d_pc = "done" =>
        LET target_meta == GetOr(d_target.dict, "Meta", PyNone) IN
        IF target_meta = PyNone
        THEN d_derived.Meta = d_base.Meta
        ELSE \A a \in MetaAttrs :
                Lookup(d_derived.Meta, a) =
                    IF HasKey(target_meta.own, a) THEN Get(target_meta.own, a)
                    ELSE Lookup(d_base.Meta, a)

\* the overlay's rule list wins while the base's tag is inherited
C9_Witness ==
    /\ d_pc = "done"
    /\ d_target.name = "ProductCustomRules"
    /\ Lookup(d_derived.Meta, "rules") = PyList(<<Rule(<<"$", ".", "p", "r", "i", "c", "e">>, <<>>)>>)
    /\ Lookup(d_base.Meta, "rules") # Lookup(d_derived.Meta, "rules")
    /\ Lookup(d_derived.Meta, "tag") = PyStr("base")

----------------------------------------------------------------------------
(* schema.py: record types, instances and validators.                      *)

\* a field value that is a Schema instance
Ref(i) == [k |-> "schema", id |-> i]
IsSchema(v) == v.k = "schema"
IsSequence(v) == v.k \in {"list", "tuple"}

\* the instances: a tool record, the patch record under its field data, the
\* item under the patch's mapping tags, and the items of the tool's list
Instances == 1..(3 + MaxItems)
ListItems == [n \in 1..MaxItems |-> Ref(3 + n)]

\* the instances the caller awaits validate() on: the tool and, directly, its patch
Roots == {1, 2}

\* the record types of the tests, the tool with a sequence field of items
\* added and the patch with a mapping field of items
TypeOf(i) ==
    IF i = 1 THEN "UpdateStockToolSchema"
    ELSE IF i = 2 THEN "StockPatchSchema"
    ELSE "ItemSchema"

\* model_fields of a type, in declaration order
FieldsOf(type) ==
    IF type = "UpdateStockToolSchema" THEN <<"stock_id", "data", "items">>
    ELSE IF type = "StockPatchSchema" THEN <<"rep_id", "tags">>
    ELSE <<"x">>

\* Meta.rules of a type
RulesOf(type) ==
    IF type = "UpdateStockToolSchema"
    THEN << Rule(<<"$", ".", "s", "t", "o", "c", "k", "_", "i", "d">>, <<"RequireValue", "Divides">>),
            Rule(<<"$", ".", "i", "t", "e", "m", "s", "[", "*", "]", ".", "x">>, <<"Composite">>),
            Rule(<<"$", ".", "d", "a", "t", "a", ".", "r", "e", "p", "_", "i", "d">>, <<"RequireValue">>),
            Rule(<<"$", ".", "d", "a", "t", "a", ".", "n", "a", "m", "e">>, <<"RequireValue">>),
            Rule(<<"$", ".", "d", "a", "t", "a">>, <<>>) >>
    ELSE IF type = "StockPatchSchema"
    THEN << Rule(<<"$", ".", "r", "e", "p", "_", "i", "d">>, <<"RequireValue">>) >>
    ELSE << Rule(<<"$", ".", "x">>, <<"MustEqual", "Divides">>) >>

\* the values the scalar field of a type is constructed with
ScalarValues(type) ==
    IF type = "UpdateStockToolSchema" THEN {PyNone, PyInt(0), PyInt(42)}
    ELSE IF type = "StockPatchSchema" THEN {PyNone, PyInt(42)}
    ELSE {PyInt(0), PyInt(41), PyInt(42)}

\* what a validator's validate(value, data, loc) does: returns, raises a
\* ValidationRuleException, or raises something else
Returned == [k |-> "returned"]

ValidationRuleException(message, loc, error_type, errors) ==
    [k |-> "ValidationRuleException", message |-> message, loc |-> loc,
     error_type |-> error_type, errors |-> errors]

OtherException(name) == [k |-> "Exception", name |-> name]

ErrorDict(loc, msg, type) == [loc |-> loc, msg |-> msg, type |-> type]

validator_validate(validator, value, data, loc) ==
    IF validator = "RequireValue"
    THEN IF value = PyNone
         THEN ValidationRuleException("value is required", loc, "value_error.missing", PyNone)
         ELSE Returned
    ELSE IF validator = "MustEqual"
    THEN IF value # PyInt(42)
         THEN ValidationRuleException("must equal 42", loc, "value_error.mismatch", PyNone)
         ELSE Returned
    ELSE IF validator = "Divides"
    THEN IF value.k # "int" THEN Returned
         ELSE IF value.v = 0 THEN OtherException("ZeroDivisionError")
         ELSE IF 84 % value.v # 0
              THEN ValidationRuleException("must divide 84", loc, "value_error.divisor", PyNone)
         ELSE Returned
    ELSE \* "Composite": reports its findings as a list of sub-errors
         IF value = PyInt(41)
         THEN ValidationRuleException("invalid", <<>>, "value_error",
                  PyList(<<ErrorDict(loc, "too low", "value_error.low"),
                           ErrorDict(loc \o <<"parity">>, "odd", "value_error.odd")>>))
         ELSE Returned

\* "except ValidationRuleException"
IsRuleFailure(exc) == exc.k = "ValidationRuleException"

\* "if exc.errors"
HasErrors(exc) == exc.errors # PyNone /\ exc.errors.items # <<>>

----------------------------------------------------------------------------
(* schema.py: model_dump, the nested traversal, the rule loop.             *)

RECURSIVE DumpValue(_, _, _, _)
\* self.model_dump(exclude_unset=partial) over the field store fs and the
\* model_fields_set store st
model_dump(fs, st, i, partial) ==
    LET names == SelectSeq(FieldsOf(TypeOf(i)), LAMBDA f : ~partial \/ f \in st[i])
    IN PyDict(names, [n \in 1..Len(names) |-> DumpValue(fs, st, fs[i][names[n]], partial)])

DumpValue(fs, st, v, partial) ==
    IF IsSchema(v) THEN model_dump(fs, st, v.id, partial)
    ELSE IF IsDict(v)
    THEN PyDict(v.keys, [n \in 1..Len(v.vals) |-> DumpValue(fs, st, v.vals[n], partial)])
    ELSE IF IsSequence(v)
    THEN [v EXCEPT !.items = [n \in 1..Len(v.items) |-> DumpValue(fs, st, v.items[n], partial)]]
    ELSE v

\* _collect_errors_from_value: the Schema instances it awaits validate() on,
\* in order, each with the loc_prefix its errors are reported under
RECURSIVE NestedTargets(_, _)
NestedTargets(value, loc_prefix) ==
    IF value = PyNone THEN <<>>
    ELSE IF IsSchema(value) THEN <<[inst |-> value.id, loc_prefix |-> loc_prefix]>>
    ELSE IF IsDict(value)
    THEN Concat([n \in 1..Len(value.keys) |->
                    NestedTargets(value.vals[n], loc_prefix \o <<value.keys[n]>>)])
    ELSE IF IsSequence(value)
    THEN Concat([n \in 1..Len(value.items) |->
                    NestedTargets(value.items[n], loc_prefix \o <<StrIdx(n)>>)])
    ELSE <<>>

\* _gather_nested_schema_errors: the targets of all fields, in field order
GatherTargets(fs, st, i, partial) ==
    LET names == SelectSeq(FieldsOf(TypeOf(i)), LAMBDA f : ~partial \/ f \in st[i])
    IN Concat([n \in 1..Len(names) |-> NestedTargets(fs[i][names[n]], <<names[n]>>)])

\* the validator invocations of the three nested loops of validate(), in order
RulePlan(rules, data) ==
    Concat([r \in 1..Len(rules) |->
        LET matches == resolve_path_expressions(data, rules[r].path) IN
        Concat([m \in 1..Len(matches) |->
            [n \in 1..Len(rules[r].validators) |->
                [rule |-> r, match |-> m, validator |-> rules[r].validators[n],
                 value |-> matches[m].val, loc |-> matches[m].loc]]])])

\* every rule failure replacing the errors collected so far
KeepLastError(errors, exc, loc) ==
    IF HasErrors(exc) THEN exc.errors.items
    ELSE <<ErrorDict(loc, exc.message, exc.error_type)>>

\* own-rule errors added before the ones already collected
AppendErrorsInFront(errors, exc, loc) ==
    IF HasErrors(exc) THEN exc.errors.items \o errors
    ELSE <<ErrorDict(loc, exc.message, exc.error_type)>> \o errors

\* the except branch of the rule loop: errors.extend / errors.append
AppendErrors(errors, exc, loc) ==
    IF HasErrors(exc) THEN errors \o exc.errors.items
    ELSE Append(errors, ErrorDict(loc, exc.message, exc.error_type))

\* the nested errors passed on with their own locations
FormatWithoutPrefix(exc, loc_prefix) ==
    IF HasErrors(exc) THEN exc.errors.items
    ELSE <<ErrorDict(exc.loc, exc.message, exc.error_type)>>

_format_nested_errors(exc, loc_prefix) ==
    IF HasErrors(exc)
    THEN [n \in 1..Len(exc.errors.items) |->
            [exc.errors.items[n] EXCEPT !.loc = loc_prefix \o exc.errors.items[n].loc]]
    ELSE <<ErrorDict(loc_prefix \o exc.loc, exc.message, exc.error_type)>>

----------------------------------------------------------------------------
(* schema.py: validate() as a state machine. A frame is one validate()     *)
(* call in progress; the steps are the stretches between its awaits.       *)

NewFrame(fs, st, i, partial, loc_prefix) ==
    [inst |-> i, partial |-> partial, loc_prefix |-> loc_prefix,
     phase |-> "nested", targets |-> GatherTargets(fs, st, i, partial),
     errors |-> <<>>, data |-> PyNone, plan |-> <<>>]

\* once the nested targets are done: errors = list(nested_errors), the dump,
\* and the rule loop up to its first validator
Settle(fs, st, frame) ==
    IF frame.phase = "nested" /\ frame.targets = <<>>
    THEN LET data == model_dump(fs, st, frame.inst, frame.partial) IN
         [frame EXCEPT !.phase = "rules", !.data = data,
                       !.plan = RulePlan(RulesOf(TypeOf(frame.inst)), data)]
    ELSE frame

\* a validate() clearing the snapshot of every record
ClearedEverySnapshot(validated, i) == [j \in Instances |-> PyNone]

\* "self._validated = None" left out
KeptSnapshot(validated, i) == validated

\* "self._validated = None"
ClearedSnapshot(validated, i) == [validated EXCEPT ![i] = PyNone]

\* an exception caught where the nested validate() was awaited
UnwindInnermost(stack) == SubSeq(stack, 1, Len(stack) - 1)

\* an exception no except clause catches leaves every validate() in progress
Unwind(stack) == <<>>

Top == v_stack[Len(v_stack)]
Below == SubSeq(v_stack, 1, Len(v_stack) - 1)

\* the location of the innermost call's record seen from the top-level record
RECURSIVE StackPath(_)
StackPath(stack) ==
    IF stack = <<>> THEN <<>> ELSE StackPath(SubSeq(stack, 1, Len(stack) - 1))
                                     \o stack[Len(stack)].loc_prefix

\* how a validate() call on an instance ended, after the calls before it
Ended(status, partial, before) ==
    [status |-> status, partial |-> partial,
     succeeded_before |-> before.succeeded_before \/ before.status = "ok"]

\* await instance.validate(partial=...), called by the user
Validate(i, partial) ==
    /\ v_stack = <<>>
    /\ v_validated' = ClearedSnapshot(v_validated, i)
    /\ v_stack' = <<Settle(v_fields, v_set, NewFrame(v_fields, v_set, i, partial, <<>>))>>
    /\ v_calls' = <<>>
    /\ v_result' = [k |-> "running", inst |-> i, partial |-> partial, exc |-> PyNone]
    /\ UNCHANGED <<v_fields, v_set, v_last>>
    /\ UNCHANGED <<r_vars, d_vars>>

\* await value.validate(partial=partial) in _collect_errors_from_value
EnterNested ==
    /\ v_stack # <<>>
    /\ Top.phase = "nested"
    /\ LET target == Head(Top.targets)
           child == NewFrame(v_fields, v_set, target.inst, Top.partial, target.loc_prefix)
       IN /\ v_validated' = ClearedSnapshot(v_validated, target.inst)
          /\ v_stack' = Below \o <<[Top EXCEPT !.targets = Tail(Top.targets)],
                                   Settle(v_fields, v_set, child)>>
    /\ UNCHANGED <<v_fields, v_set, v_calls, v_result, v_last>>
    /\ UNCHANGED <<r_vars, d_vars>>

\* await validator.validate(value=value, data=data, loc=loc) and its except clause
InvokeValidator ==
    /\ v_stack # <<>>
    /\ Top.phase = "rules"
    /\ Top.plan # <<>>
    /\ LET call == Head(Top.plan)
           exc == validator_validate(call.validator, call.value, Top.data, call.loc)
       IN /\ v_calls' = Append(v_calls,
                 [path |-> StackPath(v_stack), inst |-> Top.inst, rule |-> call.rule,
                  match |-> call.match, validator |-> call.validator,
                  value |-> call.value, data |-> Top.data, loc |-> call.loc])
          /\ IF exc = Returned
             THEN /\ v_stack' = Below \o <<[Top EXCEPT !.plan = Tail(Top.plan)]>>
                  /\ UNCHANGED <<v_result, v_last>>
             ELSE IF IsRuleFailure(exc)
             THEN /\ v_stack' = Below \o <<[Top EXCEPT !.plan = Tail(Top.plan),
                                                      !.errors = AppendErrors(Top.errors, exc, call.loc)]>>
                  /\ UNCHANGED <<v_result, v_last>>
             ELSE LET rest == Unwind(v_stack) IN
                  /\ v_stack' = IF rest = <<>> THEN <<>>
                                ELSE SubSeq(rest, 1, Len(rest) - 1)
                                     \o <<Settle(v_fields, v_set, rest[Len(rest)])>>
                  /\ v_result' = IF rest = <<>> THEN [v_result EXCEPT !.k = "raised", !.exc = exc]
                                 ELSE v_result
                  /\ v_last' = [i \in Instances |->
                                  IF \E n \in (Len(rest) + 1)..Len(v_stack) : v_stack[n].inst = i
                                  THEN Ended("exception", v_result.partial, v_last[i])
                                  ELSE v_last[i]]
    /\ UNCHANGED <<v_fields, v_set, v_validated>>
    /\ UNCHANGED <<r_vars, d_vars>>

\* the validated property
ValidationNotRunException == [k |-> "ValidationNotRunException"]

validated(i) ==
    IF v_validated[i] = PyNone THEN ValidationNotRunException ELSE v_validated[i]

\* "self._validated = data" and the return, into the parent's loop when nested
ReturnValidated ==
    /\ v_stack # <<>>
    /\ Top.phase = "rules"
    /\ Top.plan = <<>>
    /\ Top.errors = <<>>
    /\ v_validated' = [v_validated EXCEPT ![Top.inst] = Top.data]
    /\ v_last' = [v_last EXCEPT ![Top.inst] = Ended("ok", Top.partial, v_last[Top.inst])]
    /\ IF Below = <<>>
       THEN /\ v_stack' = <<>>
            /\ v_result' = [v_result EXCEPT !.k = "returned"]
       ELSE /\ v_stack' = SubSeq(Below, 1, Len(Below) - 1)
                          \o <<Settle(v_fields, v_set, Below[Len(Below)])>>
            /\ UNCHANGED v_result
    /\ UNCHANGED <<v_fields, v_set, v_calls>>
    /\ UNCHANGED <<r_vars, d_vars>>

\* "raise ValidationRuleException(...)", caught and formatted by the parent when nested
RaiseRuleError ==
    /\ v_stack # <<>>
    /\ Top.phase = "rules"
    /\ Top.plan = <<>>
    /\ Top.errors # <<>>
    /\ LET exc == ValidationRuleException("schema rule validation failed", <<>>,
                                          "rule_error", PyList(Top.errors))
       IN IF Below = <<>>
          THEN /\ v_stack' = <<>>
               /\ v_result' = [v_result EXCEPT !.k = "raised", !.exc = exc]
          ELSE LET parent == Below[Len(Below)] IN
               /\ v_stack' = SubSeq(Below, 1, Len(Below) - 1)
                    \o <<Settle(v_fields, v_set,
                                [parent EXCEPT !.errors =
                                    parent.errors \o _format_nested_errors(exc, Top.loc_prefix)])>>
               /\ UNCHANGED v_result
    /\ v_last' = [v_last EXCEPT ![Top.inst] = Ended("rule_error", Top.partial, v_last[Top.inst])]
    /\ UNCHANGED <<v_fields, v_set, v_validated, v_calls>>
    /\ UNCHANGED <<r_vars, d_vars>>

\* the records as constructed: every scalar field given a value, rep_id
\* possibly left at its default None, the items field a list or a tuple
Constructed(scalars, rep_given, seq_kind) ==
    /\ v_fields = [i \in Instances |->
          IF i = 1 THEN [stock_id |-> scalars[i], data |-> Ref(2),
                         items |-> [k |-> seq_kind, items |-> ListItems]]
          ELSE IF i = 2 THEN [rep_id |-> IF rep_given THEN scalars[i] ELSE PyNone,
                              tags |-> PyDict(<<"a">>, <<Ref(3)>>)]
          ELSE [x |-> scalars[i]]]
    /\ v_set = [i \in Instances |->
          IF i = 1 THEN {"stock_id", "data", "items"}
          ELSE IF i = 2 THEN (IF rep_given THEN {"rep_id", "tags"} ELSE {"tags"})
          ELSE {"x"}]
    /\ v_validated = [i \in Instances |-> PyNone]
    /\ v_stack = <<>>
    /\ v_calls = <<>>
    /\ v_result = [k |-> "none", inst |-> 1, partial |-> FALSE, exc |-> PyNone]
    /\ v_last = [i \in Instances |-> [status |-> "none", partial |-> FALSE, succeeded_before |-> FALSE]]

IdleValidate == Constructed([i \in Instances |-> PyInt(42)], TRUE, "list")

Init ==
    /\ IdleResolve
    /\ IdleDerive
    /\ \E scalars \in [Instances -> UNION {ScalarValues(TypeOf(i)) : i \in Instances}],
          rep_given \in BOOLEAN, seq_kind \in {"list", "tuple"} :
          /\ \A i \in Instances : scalars[i] \in ScalarValues(TypeOf(i))
          /\ rep_given \/ scalars[2] = PyNone
          /\ Constructed(scalars, rep_given, seq_kind)

Next ==
    \/ \E i \in Roots, partial \in BOOLEAN : Validate(i, partial)
    \/ EnterNested
    \/ InvokeValidator
    \/ ReturnValidated
    \/ RaiseRuleError

Spec == Init /\ [][Next]_vars

InitResolve == IdleResolve /\ IdleDerive /\ IdleValidate

SpecResolve == InitResolve /\ [][NextResolve]_vars

InitDerive == IdleResolve /\ IdleDerive /\ IdleValidate

SpecDerive == InitDerive /\ [][NextDerive]_vars

----------------------------------------------------------------------------
(* Properties of the validation engine, stated against the record graph:   *)
(* which records a call reaches, which validator invocations it owes and   *)
(* which violations those invocations find.                                *)

InProgress(i) == \E n \in 1..Len(v_stack) : v_stack[n].inst = i

\* the records directly nested in instance i, in field, key and element
\* order, each with the segments leading from i to it
Children(i, partial) ==
    LET names == SelectSeq(FieldsOf(TypeOf(i)), LAMBDA f : ~partial \/ f \in v_set[i])
        Under(f, v) ==
            IF v = PyNone THEN <<>>
            ELSE IF IsSchema(v) THEN <<[seg |-> <<f>>, inst |-> v.id]>>
            ELSE IF IsDict(v)
            THEN Concat([n \in 1..Len(v.keys) |->
                    IF IsSchema(v.vals[n])
                    THEN <<[seg |-> <<f, v.keys[n]>>, inst |-> v.vals[n].id]>> ELSE <<>>])
            ELSE IF IsSequence(v)
            THEN Concat([n \in 1..Len(v.items) |->
                    IF IsSchema(v.items[n])
                    THEN <<[seg |-> <<f, ToString(n - 1)>>, inst |-> v.items[n].id]>> ELSE <<>>])
            ELSE <<>>
    IN Concat([n \in 1..Len(names) |-> Under(names[n], v_fields[i][names[n]])])

\* the records a validate() on instance i reaches, every record after the
\* records nested in it, each with its path from the top-level record
RECURSIVE Activations(_, _, _)
Activations(i, path, partial) ==
    LET children == Children(i, partial) IN
    Concat([n \in 1..Len(children) |->
              Activations(children[n].inst, path \o children[n].seg, partial)])
    \o <<[path |-> path, inst |-> i]>>

\* the validator invocations one reached record owes: rules in declaration
\* order, matches in resolution order, validators in list order
OwnCalls(activation, partial) ==
    LET data == model_dump(v_fields, v_set, activation.inst, partial)
        rules == RulesOf(TypeOf(activation.inst))
    IN Concat([r \in 1..Len(rules) |->
          LET matches == resolve_path_expressions(data, rules[r].path) IN
          Concat([m \in 1..Len(matches) |->
             [n \in 1..Len(rules[r].validators) |->
                [path |-> activation.path, inst |-> activation.inst, rule |-> r, match |-> m,
                 validator |-> rules[r].validators[n], value |-> matches[m].val,
                 data |-> data, loc |-> matches[m].loc]]])])

ExpectedCalls(root, partial) ==
    LET activations == Activations(root, <<>>, partial) IN
    Concat([n \in 1..Len(activations) |-> OwnCalls(activations[n], partial)])

Outcome(call) == validator_validate(call.validator, call.value, call.data, call.loc)

IsFatal(call) == Outcome(call).k = "Exception"

\* the violations one invocation finds, located from the top-level record
Violations(call) ==
    LET exc == Outcome(call) IN
    IF exc.k # "ValidationRuleException" THEN <<>>
    ELSE IF exc.errors # PyNone /\ exc.errors.items # <<>>
    THEN [n \in 1..Len(exc.errors.items) |->
            [loc |-> call.path \o exc.errors.items[n].loc,
             msg |-> exc.errors.items[n].msg, type |-> exc.errors.items[n].type]]
    ELSE <<[loc |-> call.path \o call.loc, msg |-> exc.message, type |-> exc.error_type]>>

ExpectedErrors(calls) == Concat([n \in 1..Len(calls) |-> Violations(calls[n])])

Occurrences(seq, e) == Cardinality({n \in 1..Len(seq) : seq[n] = e})

IsPrefix(s, t) == Len(s) <= Len(t) /\ SubSeq(t, 1, Len(s)) = s

Completed == v_stack = <<>> /\ v_result.k \in {"returned", "raised"}

FailedOnRules ==
    /\ Completed
    /\ v_result.k = "raised"
    /\ v_result.exc.k = "ValidationRuleException"

Owed == ExpectedCalls(v_result.inst, v_result.partial)

\* C1: an instance with a validate() in progress has its snapshot cleared; any
\* other instance's snapshot is readable exactly when its most recently
\* completed validate() succeeded, and then it is the dump that call used
\* (before the first success, and after a later failure, reading it raises
\* ValidationNotRunException).
C1_SnapshotLifecycle ==
    \A i \in Instances :
        IF InProgress(i) THEN validated(i) = ValidationNotRunException
        ELSE IF v_last[i].status = "ok"
        THEN validated(i) = model_dump(v_fields, v_set, i, v_last[i].partial)
        ELSE validated(i) = ValidationNotRunException

\* a record whose validate() succeeded earlier and failed on its rules later
C1_Witness ==
    /\ v_stack = <<>>
    /\ v_last[2].succeeded_before
    /\ v_last[2].status = "rule_error"
    /\ validated(2) = ValidationNotRunException
    /\ v_last[3].status = "ok"
    /\ validated(3) = PyDict(<<"x">>, <<PyInt(42)>>)

\* C2: a completed top-level validate() in which no validator failed fatally
\* invoked every validator it owed; with N violations across the reached
\* records it returned when N = 0 and otherwise raised one rule_error failure
\* whose sub-error list has exactly N entries, each violation once.
C2_FullAggregation ==
    Completed =>
        LET owed == Owed
            violations == ExpectedErrors(owed)
            N == Len(violations)
        IN (\A n \in 1..Len(owed) : ~IsFatal(owed[n])) =>
           /\ Len(v_calls) = Len(owed)
           /\ IF N = 0 THEN v_result.k = "returned"
              ELSE /\ FailedOnRules
                   /\ v_result.exc.error_type = "rule_error"
                   /\ v_result.exc.message = "schema rule validation failed"
                   /\ Len(v_result.exc.errors.items) = N
                   /\ \A n \in 1..N :
                         Occurrences(v_result.exc.errors.items, violations[n])
                            = Occurrences(violations, violations[n])

\* seven violations at once: own rules, the nested patch, a list item with a
\* validator reporting two sub-errors
C2_Witness ==
    /\ FailedOnRules
    /\ v_result.inst = 1
    /\ ~v_result.partial
    /\ v_fields[1].stock_id = PyNone
    /\ v_fields[2].rep_id = PyNone
    /\ v_fields[1].items.k = "list"
    /\ v_fields[4].x = PyInt(41)
    /\ v_fields[3].x = PyInt(42)
    /\ v_fields[5].x = PyInt(42)
    /\ Len(v_result.exc.errors.items) = 7

\* C3: the sub-errors of a failed top-level validate() are exactly the
\* violations found in the reached records, each located at the path from the
\* top-level record to the record it was found in (field name; field name and
\* key; field name and stringified index; at every enclosing level) followed
\* by the location the record's own validate() gave it.
C3_LocationPrefixing ==
    FailedOnRules =>
        LET reported == v_result.exc.errors.items
            violations == ExpectedErrors(Owed)
        IN /\ \A n \in 1..Len(reported) : \E m \in 1..Len(violations) : reported[n] = violations[m]
           /\ \A m \in 1..Len(violations) : \E n \in 1..Len(reported) : reported[n] = violations[m]

\* the tool reports the patch's $.rep_id at ("data", "rep_id"), the item under
\* the patch's mapping two levels down, and a list item under its index
C3_Witness ==
    /\ FailedOnRules
    /\ v_result.inst = 1
    /\ \E n \in 1..Len(v_calls) :
          /\ v_calls[n].inst = 2
          /\ v_calls[n].loc = <<"rep_id">>
          /\ Violations(v_calls[n]) = <<ErrorDict(<<"data", "rep_id">>, "value is required", "value_error.missing")>>
    /\ \E n \in 1..Len(v_result.exc.errors.items) :
          v_result.exc.errors.items[n] = ErrorDict(<<"data", "tags", "a", "x">>, "must equal 42", "value_error.mismatch")
    /\ \E n \in 1..Len(v_result.exc.errors.items) :
          v_result.exc.errors.items[n] = ErrorDict(<<"items", "1", "x">>, "must divide 84", "value_error.divisor")

\* C4: a validator invocation that raised something other than a rule failure
\* is the last invocation of the top-level call, which ended at once with
\* that very exception; the snapshots of the top-level instance and of the
\* instance whose rule was running stay cleared.
C4_FatalPropagation ==
    \A n \in 1..Len(v_calls) :
        IsFatal(v_calls[n]) =>
            /\ n = Len(v_calls)
            /\ v_stack = <<>>
            /\ v_result.k = "raised"
            /\ v_result.exc = Outcome(v_calls[n])
            /\ validated(v_result.inst) = ValidationNotRunException
            /\ validated(v_calls[n].inst) = ValidationNotRunException

\* a fatal failure two levels down, after a rule failure was already
\* collected and with validators still owed
C4_Witness ==
    /\ v_result.k = "raised"
    /\ v_result.inst = 1
    /\ v_result.exc = OtherException("ZeroDivisionError")
    /\ v_calls[Len(v_calls)].path = <<"data", "tags", "a">>
    /\ Len(v_calls) = 2
    /\ Violations(v_calls[1]) # <<>>
    /\ Len(Owed) > 2
    /\ v_last[1].status = "exception"

\* C10: while an instance's own validators are being invoked no validate() of
\* a nested record is in progress; the validator invocations of a top-level
\* call that has ended are an initial part of the invocations it owed in order
\* (every reached record after the records nested in it; rules, matches and
\* validators in order; each with the matched value, the full dump and the
\* matched location), all of them unless it ended fatally, and a rule failure
\* lists the violations in that same order.
C10_Ordering ==
    /\ \A n \in 1..Len(v_stack) : v_stack[n].phase = "rules" => n = Len(v_stack)
    /\ Completed =>
          LET owed == Owed IN
          /\ IsPrefix(v_calls, owed)
          /\ v_result.k = "returned" => v_calls = owed
          /\ FailedOnRules =>
                /\ v_calls = owed
                /\ v_result.exc.errors.items = ExpectedErrors(owed)

\* nested errors of the patch and of both list items, then own-rule errors
C10_Witness ==
    /\ FailedOnRules
    /\ v_result.inst = 1
    /\ v_fields[1].items.k = "list"
    /\ LET errors == v_result.exc.errors.items IN
       /\ Len(errors) = 7
       /\ errors[1] = ErrorDict(<<"data", "rep_id">>, "value is required", "value_error.missing")
       /\ errors[2] = ErrorDict(<<"items", "1", "x">>, "must equal 42", "value_error.mismatch")
       /\ errors[3] = ErrorDict(<<"items", "1", "x">>, "must divide 84", "value_error.divisor")
       /\ errors[4] = ErrorDict(<<"stock_id">>, "value is required", "value_error.missing")
       /\ errors[5] = ErrorDict(<<"items", "1", "x">>, "too low", "value_error.low")
       /\ errors[6] = ErrorDict(<<"items", "1", "x", "parity">>, "odd", "value_error.odd")
       /\ errors[7] = ErrorDict(<<"data", "rep_id">>, "value is required", "value_error.missing")
    /\ Len(v_calls) = 12
    /\ v_calls[1].inst = 3
    /\ v_calls[3].inst = 2
    /\ v_calls[Len(v_calls)].inst = 1

\* the path p leads into the record at path q or below it
LeadsInto(p, q) == Len(q) <= Len(p) /\ SubSeq(p, 1, Len(q)) = q

\* a validate() of instance i on its own finds no violation and meets no
\* fatal failure, in i or in the records nested in it
Succeeds(i, partial) ==
    LET calls == ExpectedCalls(i, partial) IN
    \A n \in 1..Len(calls) : Outcome(calls[n]) = Returned

\* the nested record of the n-th activation was entered by the call: no
\* validator owed before its subtree failed fatally
Visited(activations, n, partial) ==
    \A k \in 1..(n - 1) :
        ~LeadsInto(activations[k].path, activations[n].path)
            => \A c \in 1..Len(OwnCalls(activations[k], partial)) :
                  ~IsFatal(OwnCalls(activations[k], partial)[c])

\* C11: after a top-level validate() has ended, however it ended, every nested
\* record the call entered has a readable snapshot exactly when its own
\* validate() succeeded, and the snapshot is then its dump; after a top-level
\* success every nested record reached has a readable snapshot.
C11_NestedSnapshots ==
    Completed =>
        LET activations == Activations(v_result.inst, <<>>, v_result.partial) IN
        \A n \in 1..Len(activations) :
            LET nested == activations[n].inst IN
            (activations[n].path # <<>> /\ Visited(activations, n, v_result.partial)) =>
                /\ IF Succeeds(nested, v_result.partial)
                   THEN validated(nested) = model_dump(v_fields, v_set, nested, v_result.partial)
                   ELSE validated(nested) = ValidationNotRunException
                /\ v_result.k = "returned" => validated(nested) # ValidationNotRunException

\* the tool's own rule fails fatally after its nested records were validated:
\* the patch and one list item keep their snapshots, the failed item has none
C11_Witness ==
    /\ Completed
    /\ v_result.inst = 1
    /\ v_result.exc = OtherException("ZeroDivisionError")
    /\ v_calls[Len(v_calls)].inst = 1
    /\ v_fields[4].x = PyInt(41)
    /\ validated(4) = ValidationNotRunException
    /\ validated(2) = PyDict(<<"rep_id", "tags">>, <<PyInt(42), PyDict(<<"a">>, <<PyDict(<<"x">>, <<PyInt(42)>>)>>)>>)
    /\ validated(5) = PyDict(<<"x">>, <<PyInt(42)>>)
    /\ validated(1) = ValidationNotRunException

====
